---- MODULE Spec2Model ----
(***************************************************************************)
(* Update-resolution service of the Steam storefront addon (src/main.ts):  *)
(* the 'check-for-updates' handler, the legacy 1.0 version resolver, the   *)
(* per-appID request queue with its processor, the rate limiter and the    *)
(* persisted TTL cache.                                                    *)
(*                                                                         *)
(* The program runs on one JavaScript event loop.  Every action below is   *)
(* one macrotask: the code that runs from a host message, a timer expiry   *)
(* or a completed HTTP request up to the next point where every async      *)
(* function involved is suspended in an await of a timer or of a request.  *)
(* Time (Date.now(), in milliseconds) advances only between macrotasks.    *)
(***************************************************************************)
EXTENDS Integers, Sequences, FiniteSets, TLC

\* ------------------------------------------------------------------------
\* Program constants
\* ------------------------------------------------------------------------
CACHE_DURATION_MS == 24 * 60 * 60 * 1000

UPDATE_COOLDOWN_MS == 1500

\* ------------------------------------------------------------------------
\* Bounds of the model
\* ------------------------------------------------------------------------
\* number of host 'check-for-updates' events in a run
MaxEvents == 2

\* number of direct queueUpdateCheck calls in a run of SpecQueue
MaxRequests == 3

\* length of a run of SpecQueue, in clock steps of half a cooldown
MaxTicks == 6

\* length of a run of Spec, in clock steps of one cooldown
MaxCooldowns == 3

TickMs == UPDATE_COOLDOWN_MS \div 2

\* Date.now() when the addon starts; cache entries found on disk are older
StartTime == CACHE_DURATION_MS

AppIDs == {42, 99}

\* the appID the requests of Spec and SpecQueue are about
OneApp == {42}

\* currentVersion values the host sends: a placeholder (line 792 treats
\* '1.0' and '1.0.0' alike) and a build id
HostVersions == {"1.0.0", "57"}

\* currentVersion values passed to queueUpdateCheck directly
QueueVersions == {"1.0", "57"}

\* ------------------------------------------------------------------------
\* Values
\* ------------------------------------------------------------------------
\* JavaScript null / undefined where a cache entry is expected
null == [version |-> "null", timestamp |-> -1]

\* What api.steamcmd.net can answer for one appID.  ok = FALSE is a failed
\* request; hasData says whether data[appID] exists; public_only is
\* "undefined" when common.public_only is missing; hasPublic says whether
\* depots.branches.public exists.
SteamResponses ==
    { [ok |-> FALSE, hasData |-> FALSE, public_only |-> "undefined",
       hasPublic |-> FALSE, buildid |-> ""],
      [ok |-> TRUE, hasData |-> FALSE, public_only |-> "undefined",
       hasPublic |-> FALSE, buildid |-> ""],
      [ok |-> TRUE, hasData |-> TRUE, public_only |-> "undefined",
       hasPublic |-> TRUE, buildid |-> "57"],
      [ok |-> TRUE, hasData |-> TRUE, public_only |-> "undefined",
       hasPublic |-> TRUE, buildid |-> "58"],
      [ok |-> TRUE, hasData |-> TRUE, public_only |-> "1",
       hasPublic |-> TRUE, buildid |-> "57"] }

\* Map helpers: a Map is a function whose DOMAIN is the set of its keys
MapSet(m, k, v) == [x \in (DOMAIN m) \cup {k} |-> IF x = k THEN v ELSE m[x]]

MapDelete(m, k) == [x \in (DOMAIN m) \ {k} |-> m[x]]

EmptyMap == [x \in {} |-> null]

\* ------------------------------------------------------------------------
\* State
\* ------------------------------------------------------------------------
VARIABLES
    now,                    \* Date.now()
    req,                    \* the request counter of the handler
    events,                 \* the host events received so far, in order
    timers,                 \* pending setTimeout callbacks, by expiry
    updateQueues,           \* Map appID -> array of pending requests
    queueProcessors,        \* appIDs whose queueProcessors entry is true
    proc,                   \* where each appID's processUpdateQueue call is
    cache,                  \* contents of update-cache.json
    lastApiCallTime,        \* Map appID -> time of last call (0: no entry)
    resolved10FileVersions, \* the legacy resolutions
    pending,                \* history: per appID, the requests pushed and
                            \* not yet settled, in the order of their push
    fetchLog,               \* history: per appID, the processor's API calls
    settled,                \* history: what the last step settled, in order
    details,                \* the game-details events received so far
    catalogs                \* the catalog events received so far

vars == <<now, req, events, timers, updateQueues, queueProcessors, proc,
          cache, lastApiCallTime, resolved10FileVersions, pending, fetchLog,
          settled, details, catalogs>>

\* proc of an appID: where its processUpdateQueue call is suspended (idle:
\* there is none), the request it has taken, and as history what
\* getCachedUpdate found for that request and whether the rate limiter
\* made it wait
IdleProc == [pc |-> "idle", request |-> 0, found |-> "", limited |-> FALSE]

\* fetchLog of an appID: the number of calls getSteamAppInfo has received
\* from processUpdateCheck, when the last one started, and whether every
\* call started at least 1500 ms after the call before it, and the time
\* between the last two; misses is the number of requests the processor
\* has handed to processUpdateCheck (line 163)
NoCalls == [count |-> 0, last |-> 0, spaced |-> TRUE, gap |-> 0, misses |-> 0]

LogCall(log, t) ==
    [count |-> log.count + 1,
     last |-> t,
     spaced |-> log.spaced /\ (log.count = 0 \/ t - log.last >= 1500),
     gap |-> IF log.count = 0 THEN 0 ELSE t - log.last,
     misses |-> log.misses]

\* ------------------------------------------------------------------------
\* The persisted TTL cache
\* ------------------------------------------------------------------------
readUpdateCache(file) == file

writeUpdateCache(file, c) == c

\* (a variant that lets an entry live one millisecond too long)
ExpiredLate(age) == age > CACHE_DURATION_MS

\* (a variant that takes the cooldown for the time an entry lives)
ExpiredAfterCooldown(age) == age >= UPDATE_COOLDOWN_MS

\* line 70: the entry has expired
Expired(age) == age >= CACHE_DURATION_MS

\* (a variant that never finds an entry)
getCachedUpdateMiss(file, appID, t) == [entry |-> null, file |-> file]

\* getCachedUpdate: the value returned and the file it leaves behind
getCachedUpdate(file, appID, t) ==
    LET c == readUpdateCache(file) IN
    IF appID \notin DOMAIN c
    THEN [entry |-> null, file |-> file]
    ELSE IF Expired(t - c[appID].timestamp)
         THEN [entry |-> null, file |-> writeUpdateCache(file, MapDelete(c, appID))]
         ELSE [entry |-> c[appID], file |-> file]

\* (a variant whose write is lost)
setCachedUpdateNoWrite(file, appID, version, t) == file

\* (a variant that saves a file holding the new entry alone)
setCachedUpdateAlone(file, appID, version, t) ==
    writeUpdateCache(file, MapSet(EmptyMap, appID,
                                  [version |-> version, timestamp |-> t]))

setCachedUpdate(file, appID, version, t) ==
    writeUpdateCache(file,
        MapSet(readUpdateCache(file), appID,
               [version |-> version, timestamp |-> t]))

\* ------------------------------------------------------------------------
\* Version derivation (lines 115-117 and 831-833)
\* ------------------------------------------------------------------------
\* reading steamAppInfo.data[appID].common, or branches['public'].buildid of
\* a record without that branch, throws a TypeError
DeriveThrows(resp) ==
    \/ ~resp.hasData
    \/ resp.public_only = "undefined" /\ ~resp.hasPublic

DeriveVersion(resp) ==
    IF resp.public_only = "undefined" THEN resp.buildid ELSE "1.0"

\* ------------------------------------------------------------------------
\* Timers: Node runs expired timers in the order of their expiry, and
\* timers of equal expiry in the order they were set
\* ------------------------------------------------------------------------
RECURSIVE InsertTimer(_, _)
InsertTimer(ts, t) ==
    IF ts = <<>> THEN <<t>>
    ELSE IF Head(ts).deadline <= t.deadline
         THEN <<Head(ts)>> \o InsertTimer(Tail(ts), t)
         ELSE <<t>> \o ts

setTimeout(s, kind, id, ms) ==
    [s EXCEPT !.timers =
        InsertTimer(@, [deadline |-> now + ms, kind |-> kind, id |-> id])]

TimerDue(kind, id) ==
    /\ timers # <<>>
    /\ Head(timers).kind = kind
    /\ Head(timers).id = id
    /\ now >= Head(timers).deadline

\* ------------------------------------------------------------------------
\* The part of the state the queue code works on, as one record
\* ------------------------------------------------------------------------
Cur == [events |-> events, timers |-> timers, updateQueues |-> updateQueues,
        queueProcessors |-> queueProcessors, proc |-> proc, cache |-> cache,
        lastApiCallTime |-> lastApiCallTime, pending |-> pending,
        fetchLog |-> fetchLog, settled |-> <<>>]

Commit(s) ==
    \E t \in {s} :
        /\ events' = t.events
        /\ timers' = t.timers
        /\ updateQueues' = t.updateQueues
        /\ queueProcessors' = t.queueProcessors
        /\ proc' = t.proc
        /\ cache' = t.cache
        /\ lastApiCallTime' = t.lastApiCallTime
        /\ pending' = t.pending
        /\ fetchLog' = t.fetchLog
        /\ settled' = t.settled
        /\ UNCHANGED <<details, catalogs>>

\* history helpers: a sequence without one element; the events for r's
\* appID that the host sent after r and that have been resolved already
Without(seq, r) == SelectSeq(seq, LAMBDA x : x # r)

ResolvedLater(evs, r) ==
    {f \in (r + 1)..Len(evs) :
        evs[f].appID = evs[r].appID /\ evs[f].pc = "resolved"}

\* a handler invocation that has ended: its locals are gone
Finished(ev, pc) ==
    [appID |-> ev.appID, supplied |-> "", currentVersion |-> "", pc |-> pc,
     calls |-> 0, waited |-> 0]

\* (a variant with the comparison turned round)
AvailableIfSame(version, currentVersion) == version = currentVersion

\* lines 124 and 156: is an update available
Available(version, currentVersion) == version # currentVersion

\* history: the oldest request of an appID that is pushed and not settled
\* (0: there is none)
OldestPending(s, appID) ==
    IF s.pending[appID] = <<>> THEN 0 ELSE Head(s.pending[appID])

\* history: the metadata answer a settled request got is recorded with it;
\* NoAnswer for a request that made no call
NoAnswer == [ok |-> FALSE, hasData |-> FALSE, public_only |-> "undefined",
             hasPublic |-> FALSE, buildid |-> "none"]

withAnswer(s, resp) == [s EXCEPT !.settled[Len(s.settled)].record = resp]

\* request.resolve(result), and the handler's continuation (line 803) that
\* passes the result to event.resolve
\* (via and fresh are history: where the version came from, and whether a
\* cache entry it came from was younger than the TTL)
resolveRequest(s, r, version, via, fresh) ==
    [s EXCEPT !.events[r] = Finished(@, "resolved"),
              !.pending[s.events[r].appID] = Without(@, r),
              !.settled = Append(@,
                  [request |-> r, event |-> s.events[r], pc |-> "resolved",
                   version |-> version,
                   available |-> Available(version, s.events[r].currentVersion),
                   error |-> "", cause |-> "", via |-> via, fresh |-> fresh,
                   oldest |-> OldestPending(s, s.events[r].appID),
                   record |-> NoAnswer,
                   overtakenBy |-> ResolvedLater(s.events, r)])]

\* request.reject(error): the handler's await of queueUpdateCheck throws
\* (cause is history: what went wrong)
rejectRequest(s, r, error, cause) ==
    [s EXCEPT !.events[r] = Finished(@, "rejected"),
              !.pending[s.events[r].appID] = Without(@, r),
              !.settled = Append(@,
                  [request |-> r, event |-> s.events[r], pc |-> "rejected",
                   version |-> "",
                   available |-> FALSE, error |-> error, cause |-> cause,
                   via |-> "fetch", fresh |-> TRUE,
                   oldest |-> OldestPending(s, s.events[r].appID),
                   record |-> NoAnswer,
                   overtakenBy |-> ResolvedLater(s.events, r)])]

\* ------------------------------------------------------------------------
\* Rate limiter and metadata call of processUpdateCheck (lines 96-108)
\* ------------------------------------------------------------------------
\* (a variant without the rate limiter)
RateLimitNoWait(lastCall, t) == 0

\* lines 96-103: how long to wait before the call, 0 for no wait
RateLimitWait(lastCall, t) ==
    IF lastCall # 0 /\ t - lastCall < UPDATE_COOLDOWN_MS
    THEN UPDATE_COOLDOWN_MS - (t - lastCall)
    ELSE 0

\* (a variant that issues the request twice)
startApiCallTwice(s, appID) ==
    [s EXCEPT !.lastApiCallTime[appID] = now,
              !.fetchLog[appID] = LogCall(LogCall(@, now), now),
              !.events[s.proc[appID].request].calls = @ + 2,
              !.proc[appID].pc = "fetching"]

\* lines 107-108: record the time and issue the request
startApiCall(s, appID) ==
    [s EXCEPT !.lastApiCallTime[appID] = now,
              !.fetchLog[appID] = LogCall(@, now),
              !.events[s.proc[appID].request].calls = @ + 1,
              !.proc[appID].pc = "fetching"]

\* processUpdateCheck up to its first await
processUpdateCheck(s, appID) ==
    LET waitTime == RateLimitWait(s.lastApiCallTime[appID], now) IN
    IF waitTime > 0
    THEN setTimeout([s EXCEPT !.proc[appID].pc = "cooldown",
                              !.proc[appID].limited = TRUE],
                    "cooldown", appID, waitTime)
    ELSE startApiCall(s, appID)

\* ------------------------------------------------------------------------
\* processUpdateQueue (lines 128-179)
\* ------------------------------------------------------------------------
\* (a variant in which a cache hit counts as an API call for the limiter)
serveFromCacheTouching(s, r, entry) ==
    [resolveRequest(s, r, entry.version, "cache",
                    now - entry.timestamp < CACHE_DURATION_MS)
        EXCEPT !.lastApiCallTime[s.events[r].appID] = now]

\* lines 150-160: the request is resolved from the entry getCachedUpdate
\* returned
serveFromCache(s, r, entry) ==
    resolveRequest(s, r, entry.version, "cache",
                   now - entry.timestamp < CACHE_DURATION_MS)

\* (a variant that takes the newest request: pop() for shift())
QueueTakeLast(queue) ==
    [request |-> queue[Len(queue)], rest |-> SubSeq(queue, 1, Len(queue) - 1)]

\* line 144: the request the processor takes and the queue it leaves
QueueTake(queue) == [request |-> Head(queue), rest |-> Tail(queue)]

\* (a variant that clears the flag and leaves the queue in the registry)
processorCleanupKeepsQueue(s, appID) ==
    [s EXCEPT !.queueProcessors = @ \ {appID},
              !.proc[appID] = IdleProc]

\* lines 174-178: the finally block
processorCleanup(s, appID) ==
    [s EXCEPT !.queueProcessors = @ \ {appID},
              !.updateQueues = MapDelete(@, appID),
              !.proc[appID] = IdleProc]

\* the while loop from its top to the next await, or to its exit
\* (the state at the top of the loop is bound as a value, s, so that each
\* round is computed once)
RECURSIVE processUpdateQueueLoop(_, _)
processUpdateQueueLoop(atTop, appID) ==
    CHOOSE atAwait \in {
        IF appID \notin DOMAIN s.updateQueues \/ Len(s.updateQueues[appID]) = 0
        THEN processorCleanup(s, appID)
        ELSE LET took == QueueTake(s.updateQueues[appID])
                 got == getCachedUpdate(s.cache, appID, now)
                 found == IF appID \notin DOMAIN s.cache THEN "absent"
                          ELSE IF now - s.cache[appID].timestamp >= CACHE_DURATION_MS
                               THEN "expired" ELSE "valid"
                 s1 == [s EXCEPT !.updateQueues[appID] = took.rest,
                                 !.cache = got.file,
                                 !.proc[appID] =
                                     [pc |-> "running", request |-> took.request,
                                      found |-> found, limited |-> FALSE]]
             IN IF got.entry # null
                THEN processUpdateQueueLoop(
                         serveFromCache(s1, took.request, got.entry), appID)
                ELSE processUpdateCheck(
                         [s1 EXCEPT !.fetchLog[appID].misses = @ + 1], appID)
        : s \in {atTop} } : TRUE

\* (a variant without the test of the flag)
processUpdateQueueUnguarded(s, appID) ==
    processUpdateQueueLoop(
        [s EXCEPT !.queueProcessors = @ \cup {appID}], appID)

\* the call of processUpdateQueue made by queueUpdateCheck
\* (a variant with one flag for all appIDs)
processUpdateQueueOneFlag(s, appID) ==
    IF s.queueProcessors # {}
    THEN s
    ELSE processUpdateQueueLoop(
             [s EXCEPT !.queueProcessors = @ \cup {appID}], appID)

processUpdateQueue(s, appID) ==
    IF appID \in s.queueProcessors
    THEN s
    ELSE processUpdateQueueLoop(
             [s EXCEPT !.queueProcessors = @ \cup {appID}], appID)

\* (a variant in which a request that made an API call ends the run)
afterApiCallAbort(s, appID) == processorCleanup(s, appID)

\* (a variant whose inter-item wait is never resumed)
afterApiCallNoResume(s, appID) ==
    IF Len(s.updateQueues[appID]) > 0
    THEN [s EXCEPT !.proc[appID].pc = "inter"]
    ELSE processUpdateQueueLoop(s, appID)

\* (a variant that waits whether or not a request is queued)
afterApiCallAlwaysWait(s, appID) ==
    setTimeout([s EXCEPT !.proc[appID].pc = "inter"],
               "inter", appID, UPDATE_COOLDOWN_MS)

\* lines 169-172: after a request that made an API call
afterApiCall(s, appID) ==
    IF Len(s.updateQueues[appID]) > 0
    THEN setTimeout([s EXCEPT !.proc[appID].pc = "inter"],
                    "inter", appID, UPDATE_COOLDOWN_MS)
    ELSE processUpdateQueueLoop(s, appID)

\* queueUpdateCheck (lines 181-200)
queueUpdateCheck(s, r) ==
    LET appID == s.events[r].appID
        q == IF appID \in DOMAIN s.updateQueues
             THEN s.updateQueues[appID] ELSE <<>>
        s1 == [s EXCEPT !.updateQueues = MapSet(@, appID, Append(q, r)),
                        !.events[r].pc = "queued",
                        !.pending[appID] = Append(@, r)]
    IN processUpdateQueue(s1, appID)

\* lines 115-125 of processUpdateCheck, with the catch of lines 165-167:
\* an answer has arrived
finishDerive(s, appID, resp) ==
    LET r == s.proc[appID].request IN
    IF DeriveThrows(resp)
    THEN rejectRequest(s, r, "Unknown error",
                       IF resp.hasData THEN "no build id" ELSE "no record")
    ELSE LET version == DeriveVersion(resp) IN
         resolveRequest(
             [s EXCEPT !.cache = setCachedUpdate(@, appID, version, now)],
             r, version, "fetch", TRUE)

\* (a variant without the return of line 112: after reject() the function
\* runs on, line 115 throws on the missing answer and the catch of line 166
\* rejects again)
finishUpdateCheckNoReturn(s, appID, resp) ==
    LET r == s.proc[appID].request IN
    withAnswer(
        IF ~resp.ok
        THEN rejectRequest(
                 rejectRequest(s, r, "Steam app info not found", "fetch failed"),
                 r, "Unknown error", "fetch failed")
        ELSE finishDerive(s, appID, resp),
        resp)

\* the rest of processUpdateCheck once getSteamAppInfo has returned
\* (lines 110-125), with the catch of lines 165-167
finishUpdateCheck(s, appID, resp) ==
    LET r == s.proc[appID].request IN
    withAnswer(
        IF ~resp.ok
        THEN rejectRequest(s, r, "Steam app info not found", "fetch failed")
        ELSE finishDerive(s, appID, resp),
        resp)

\* ------------------------------------------------------------------------
\* The 'check-for-updates' handler (lines 785-805) and the legacy resolver
\* ------------------------------------------------------------------------
\* (a variant that knows one placeholder only)
IsPlaceholder10Only(v) == v = "1.0"

\* line 792
IsPlaceholder(v) == v = "1.0" \/ v = "1.0.0"

\* (a variant of the resolver that never looks at what it has stored)
HasNoResolution(stored, appID) == FALSE

\* line 821: the resolver has a resolution for the appID
HasResolution(stored, appID) == appID \in DOMAIN stored

\* (a variant whose delay does not grow with the counter)
StaggerMsFixed(n) == UPDATE_COOLDOWN_MS

\* line 798: the delay before the request is queued
StaggerMs(n) == UPDATE_COOLDOWN_MS * n

NewEvent(appID, v) ==
    [appID |-> appID, supplied |-> v, currentVersion |-> v, pc |-> "start",
     calls |-> 0, waited |-> 0]

\* line 798 for event e
startStagger(s, e, n) ==
    setTimeout([s EXCEPT !.events[e].pc = "stagger",
                         !.events[e].waited = StaggerMs(n)],
               "stagger", e, StaggerMs(n))

\* a host message arrives: lines 787-798 up to the first await that suspends
HostEvent(appID, v) ==
    /\ Len(events) < MaxEvents
    /\ req' = req + 1
    /\ LET e == Len(events) + 1
           s0 == [Cur EXCEPT !.events = Append(@, NewEvent(appID, v))]
       IN IF IsPlaceholder(v)
          THEN IF HasResolution(resolved10FileVersions, appID)
               THEN Commit(startStagger(
                        [s0 EXCEPT !.events[e].currentVersion =
                                       resolved10FileVersions[appID]],
                        e, req + 1))
               ELSE Commit([s0 EXCEPT !.events[e].pc = "resolving",
                                      !.events[e].calls = 1])
          ELSE Commit(startStagger(s0, e, req + 1))
    /\ UNCHANGED <<now, resolved10FileVersions>>

\* (a variant of the resolver that also records what it fetched in the TTL
\* cache)
LegacyFetchDoneCaching(e, resp) ==
    /\ e \in 1..Len(events)
    /\ events[e].pc = "resolving"
    /\ LET appID == events[e].appID IN
       IF ~resp.ok
       THEN /\ Commit(startStagger(
                   [Cur EXCEPT !.events[e].currentVersion = "1.0"], e, req))
            /\ UNCHANGED resolved10FileVersions
       ELSE IF DeriveThrows(resp)
            THEN /\ Commit([Cur EXCEPT !.events[e] = Finished(@, "threw")])
                 /\ UNCHANGED resolved10FileVersions
            ELSE /\ resolved10FileVersions' =
                        MapSet(resolved10FileVersions, appID, DeriveVersion(resp))
                 /\ Commit(startStagger(
                        [Cur EXCEPT !.events[e].currentVersion =
                                        DeriveVersion(resp),
                                    !.cache = setCachedUpdate(
                                        @, appID, DeriveVersion(resp), now)],
                        e, req))
    /\ UNCHANGED <<now, req>>

\* getSteamAppInfo of resolve10FileVersion returns: lines 825-836, 795-798
LegacyFetchDone(e, resp) ==
    /\ e \in 1..Len(events)
    /\ events[e].pc = "resolving"
    /\ LET appID == events[e].appID IN
       IF ~resp.ok
       THEN /\ Commit(startStagger(
                   [Cur EXCEPT !.events[e].currentVersion = "1.0"], e, req))
            /\ UNCHANGED resolved10FileVersions
       ELSE IF DeriveThrows(resp)
            THEN /\ Commit([Cur EXCEPT !.events[e] = Finished(@, "threw")])
                 /\ UNCHANGED resolved10FileVersions
            ELSE /\ resolved10FileVersions' =
                        MapSet(resolved10FileVersions, appID, DeriveVersion(resp))
                 /\ Commit(startStagger(
                        [Cur EXCEPT !.events[e].currentVersion =
                                        DeriveVersion(resp)],
                        e, req))
    /\ UNCHANGED <<now, req>>

\* getSteamAppInfo of resolve10FileVersion returns a record, line 834 stores
\* the version and the writeFileSync of line 835 throws: the exception
\* leaves the resolver and ends the handler's deferred function
LegacyStoreWriteFails(e, resp) ==
    /\ e \in 1..Len(events)
    /\ events[e].pc = "resolving"
    /\ resp.ok
    /\ ~DeriveThrows(resp)
    /\ resolved10FileVersions' =
           MapSet(resolved10FileVersions, events[e].appID, DeriveVersion(resp))
    /\ Commit([Cur EXCEPT !.events[e] = Finished(@, "storeFailed")])
    /\ UNCHANGED <<now, req>>

\* the timer of line 798 expires: lines 802-803 up to the next await
StaggerFire(e) ==
    /\ TimerDue("stagger", e)
    /\ Commit(queueUpdateCheck([Cur EXCEPT !.timers = Tail(@)], e))
    /\ UNCHANGED <<now, req, resolved10FileVersions>>

\* the rate limiter's timer (line 102) expires: lines 107-108
CooldownFire(appID) ==
    /\ TimerDue("cooldown", appID)
    /\ Commit(startApiCall([Cur EXCEPT !.timers = Tail(@)], appID))
    /\ UNCHANGED <<now, req, resolved10FileVersions>>

\* getSteamAppInfo of processUpdateCheck returns: lines 110-125, 165-172
\* and the loop up to its next await
QueueFetchDone(appID, resp) ==
    /\ proc[appID].pc = "fetching"
    /\ Commit(afterApiCall(finishUpdateCheck(Cur, appID, resp), appID))
    /\ UNCHANGED <<now, req, resolved10FileVersions>>

\* the timer of line 171 expires: the loop goes on
InterFire(appID) ==
    /\ TimerDue("inter", appID)
    /\ Commit(processUpdateQueueLoop([Cur EXCEPT !.timers = Tail(@)], appID))
    /\ UNCHANGED <<now, req, resolved10FileVersions>>

\* Time passes.  A macrotask takes no time and a timer's callback runs as
\* soon as the timer has expired, so the clock does not pass the expiry of
\* a pending timer.
Advance(ms, horizon) ==
    /\ now + ms <= horizon
    /\ IF timers = <<>> THEN TRUE ELSE now + ms <= Head(timers).deadline
    /\ now' = now + ms
    /\ settled' = <<>>
    /\ UNCHANGED <<req, events, timers, updateQueues, queueProcessors, proc,
                   cache, lastApiCallTime, resolved10FileVersions, pending,
                   fetchLog, details, catalogs>>

\* ------------------------------------------------------------------------
\* Initial states: the cache file found at start holds nothing, or for one
\* appID an entry that has just reached the TTL, or one that reaches it
\* two cooldowns from now
\* ------------------------------------------------------------------------
InitialCaches ==
    {EmptyMap}
    \cup {MapSet(EmptyMap, a, [version |-> "57", timestamp |-> t]) :
             a \in OneApp,
             t \in {StartTime - CACHE_DURATION_MS,
                    StartTime - CACHE_DURATION_MS + 2 * UPDATE_COOLDOWN_MS}}

Tick == Advance(TickMs, StartTime + MaxTicks * TickMs)

TickCooldown ==
    Advance(UPDATE_COOLDOWN_MS, StartTime + MaxCooldowns * UPDATE_COOLDOWN_MS)

Init ==
    /\ now = StartTime
    /\ req = 0
    /\ events = <<>>
    /\ timers = <<>>
    /\ updateQueues = EmptyMap
    /\ queueProcessors = {}
    /\ proc = [a \in AppIDs |-> IdleProc]
    /\ cache \in InitialCaches
    /\ lastApiCallTime = [a \in AppIDs |-> 0]
    /\ resolved10FileVersions = [x \in {} |-> ""]
    /\ pending = [a \in AppIDs |-> <<>>]
    /\ fetchLog = [a \in AppIDs |-> NoCalls]
    /\ settled = <<>>
    /\ details = <<>>
    /\ catalogs = <<>>

Next ==
    \/ \E a \in OneApp, v \in HostVersions : HostEvent(a, v)
    \/ \E e \in 1..MaxEvents, resp \in SteamResponses : LegacyFetchDone(e, resp)
    \/ \E e \in 1..MaxEvents : StaggerFire(e)
    \/ \E a \in AppIDs : CooldownFire(a)
    \/ \E a \in AppIDs, resp \in SteamResponses : QueueFetchDone(a, resp)
    \/ \E a \in AppIDs : InterFire(a)
    \/ TickCooldown

Spec == Init /\ [][Next]_vars

\* ------------------------------------------------------------------------
\* The handler on a disk that can fail: the write of
\* resolved10FileVersions.json may throw
\* ------------------------------------------------------------------------
NextFaults ==
    \/ Next
    \/ \E e \in 1..MaxEvents, resp \in SteamResponses :
          LegacyStoreWriteFails(e, resp)

SpecFaults == Init /\ [][NextFaults]_vars

\* ------------------------------------------------------------------------
\* The queue alone: queueUpdateCheck is called at any time, with any
\* arguments, as the handler may call it once its delay is over
\* ------------------------------------------------------------------------
Submit(appID, v) ==
    /\ Len(events) < MaxRequests
    /\ LET r == Len(events) + 1 IN
       Commit(queueUpdateCheck(
                  [Cur EXCEPT !.events = Append(@, NewEvent(appID, v))], r))
    /\ UNCHANGED <<now, req, resolved10FileVersions>>

NextQueue ==
    \/ \E a \in OneApp, v \in QueueVersions : Submit(a, v)
    \/ \E a \in AppIDs : CooldownFire(a)
    \/ \E a \in AppIDs, resp \in SteamResponses : QueueFetchDone(a, resp)
    \/ \E a \in AppIDs : InterFire(a)
    \/ Tick

SpecQueue == Init /\ [][NextQueue]_vars

\* ------------------------------------------------------------------------
\* The queue under the assumption that every timer expires and every
\* metadata call returns: while a timer is pending the clock runs on to its
\* expiry, whatever the length of the run
\* ------------------------------------------------------------------------
TimerWait ==
    /\ timers # <<>>
    /\ Advance(TickMs, Head(timers).deadline)

NextQueueLive ==
    \/ NextQueue
    \/ TimerWait

\* the step the event loop takes next for the queue: a due timer's callback,
\* the continuation of a returned metadata call, or the wait for a timer
QueueStep ==
    \/ TimerWait
    \/ \E a \in AppIDs : CooldownFire(a)
    \/ \E a \in AppIDs : InterFire(a)
    \/ \E a \in AppIDs, resp \in SteamResponses : QueueFetchDone(a, resp)

FairQueue == WF_vars(QueueStep)

SpecQueueLive == Init /\ [][NextQueueLive]_vars /\ FairQueue

\* ------------------------------------------------------------------------
\* A burst: every queueUpdateCheck call is made at the start, back-to-back,
\* and the queue then runs until it has served them
\* ------------------------------------------------------------------------
SubmitAtStart(appID, v) ==
    /\ now = StartTime
    /\ Submit(appID, v)

NextBurst ==
    \/ \E a \in OneApp, v \in QueueVersions : SubmitAtStart(a, v)
    \/ \E a \in AppIDs : CooldownFire(a)
    \/ \E a \in AppIDs, resp \in SteamResponses : QueueFetchDone(a, resp)
    \/ \E a \in AppIDs : InterFire(a)
    \/ TimerWait

SpecBurst == Init /\ [][NextBurst]_vars

\* ------------------------------------------------------------------------
\* Two appIDs: requests for 42 and for 99, each with its own queue and
\* processor (lines 29-30, 183-187), over one cache file that holds
\* nothing or an entry for each
\* ------------------------------------------------------------------------
MaxPairRequests == 2

PairCaches ==
    {EmptyMap}
    \cup {MapSet(MapSet(EmptyMap, 42, [version |-> "57", timestamp |-> t1]),
                 99, [version |-> "57", timestamp |-> t2]) :
             t1, t2 \in {StartTime - CACHE_DURATION_MS,
                         StartTime - CACHE_DURATION_MS + UPDATE_COOLDOWN_MS}}

InitPair ==
    /\ now = StartTime
    /\ req = 0
    /\ events = <<>>
    /\ timers = <<>>
    /\ updateQueues = EmptyMap
    /\ queueProcessors = {}
    /\ proc = [a \in AppIDs |-> IdleProc]
    /\ cache \in PairCaches
    /\ lastApiCallTime = [a \in AppIDs |-> 0]
    /\ resolved10FileVersions = [x \in {} |-> ""]
    /\ pending = [a \in AppIDs |-> <<>>]
    /\ fetchLog = [a \in AppIDs |-> NoCalls]
    /\ settled = <<>>
    /\ details = <<>>
    /\ catalogs = <<>>

SubmitPair(appID, v) ==
    /\ Len(events) < MaxPairRequests
    /\ Submit(appID, v)

\* the event loop sleeps until the next timer expires
PairWait ==
    /\ timers # <<>>
    /\ Advance(UPDATE_COOLDOWN_MS, Head(timers).deadline)

NextPair ==
    \/ \E a \in AppIDs, v \in QueueVersions : SubmitPair(a, v)
    \/ \E a \in AppIDs : CooldownFire(a)
    \/ \E a \in AppIDs, resp \in SteamResponses : QueueFetchDone(a, resp)
    \/ \E a \in AppIDs : InterFire(a)
    \/ PairWait

SpecPair == InitPair /\ [][NextPair]_vars

\* The event loop runs a due timer's callback and sleeps until the next
\* timer; the metadata service answers a call for 99 in the end.  A call
\* for 42 may stay unanswered for ever: axios is given no timeout (lines
\* 391-396).
PairStep ==
    \/ PairWait
    \/ \E a \in AppIDs : CooldownFire(a)
    \/ \E a \in AppIDs : InterFire(a)
    \/ \E resp \in SteamResponses : QueueFetchDone(99, resp)

FairPair == WF_vars(PairStep)

SpecPairLive == InitPair /\ [][NextPair]_vars /\ FairPair

\* ------------------------------------------------------------------------
\* The game-details handler: main.ts lines 660-704, and the handler of
\* unnamed/part_000 lines 141-160
\* ------------------------------------------------------------------------
MaxDetails == 2

\* main.ts line 525: the delay at the start of getRealGame
REAL_GAME_DELAY_MS == 200

DetailsHandlers == {"main.ts", "part_000"}

\* what the store's appdetails call can answer: the request fails, the
\* body has no entry for the id, success is false, the entry is a game, the
\* entry is of another type
StoreAnswers == {"error", "no entry", "not success", "game", "dlc"}

\* getRealGame, lines 523-560: TRUE when it returns the game's data, FALSE
\* when it returns undefined (every exception is caught, lines 556-559)
getRealGame(ans) == ans = "game"

\* what getSteamAppInfo can return to the handler: undefined, a body
\* without a record for the id, a record without common, a record without
\* depots, a record whose depots have no public branch, a full record
DetailsResponses ==
    {[ok |-> FALSE, hasData |-> FALSE, hasCommon |-> FALSE,
      hasDepots |-> FALSE, hasPublic |-> FALSE],
     [ok |-> TRUE, hasData |-> FALSE, hasCommon |-> FALSE,
      hasDepots |-> FALSE, hasPublic |-> FALSE],
     [ok |-> TRUE, hasData |-> TRUE, hasCommon |-> FALSE,
      hasDepots |-> TRUE, hasPublic |-> TRUE],
     [ok |-> TRUE, hasData |-> TRUE, hasCommon |-> TRUE,
      hasDepots |-> FALSE, hasPublic |-> FALSE],
     [ok |-> TRUE, hasData |-> TRUE, hasCommon |-> TRUE,
      hasDepots |-> TRUE, hasPublic |-> FALSE],
     [ok |-> TRUE, hasData |-> TRUE, hasCommon |-> TRUE,
      hasDepots |-> TRUE, hasPublic |-> TRUE]}

\* lines 677 and 685 read a property of common, line 698 reads
\* branches['public'].buildid when depots is there: a TypeError when the
\* object read from is undefined
DetailsThrows(resp) ==
    \/ ~resp.hasCommon
    \/ resp.hasDepots /\ ~resp.hasPublic

\* an invocation of the handler: which file's handler it is, where its
\* deferred function is, and how often it has called event.resolve and
\* event.fail
NewDetails(h) == [handler |-> h, pc |-> "delay", resolves |-> 0, fails |-> 0]

eventResolve(inv) == [inv EXCEPT !.resolves = @ + 1]

eventFail(inv) == [inv EXCEPT !.fails = @ + 1]

returned(inv) == [inv EXCEPT !.pc = "done"]

\* part_000 lines 144-158, after getRealGame has returned
gameDetailsPart000(inv, realGame) ==
    LET afterIf == IF realGame THEN eventResolve(inv) ELSE inv
    IN returned(eventFail(afterIf))

\* main.ts lines 663-664 and 702, after getRealGame has returned
gameDetailsMain(inv, realGame) ==
    IF realGame
    THEN [inv EXCEPT !.pc = "info"]
    ELSE returned(eventFail(inv))

\* main.ts lines 665-700, after getSteamAppInfo has returned
gameDetailsInfo(inv, resp) ==
    IF ~resp.ok THEN returned(eventFail(inv))
    ELSE IF ~resp.hasData THEN returned(eventFail(inv))
    ELSE IF DetailsThrows(resp) THEN [inv EXCEPT !.pc = "threw"]
    ELSE returned(eventResolve(inv))

hostState == <<req, events, updateQueues, queueProcessors, proc, cache,
               lastApiCallTime, resolved10FileVersions, pending, fetchLog,
               settled>>

\* a game-details event arrives: lines 660-662 and 525, up to the timer
DetailsEvent(h) ==
    /\ Len(details) < MaxDetails
    /\ details' = Append(details, NewDetails(h))
    /\ timers' = InsertTimer(timers, [deadline |-> now + REAL_GAME_DELAY_MS,
                                      kind |-> "realGame",
                                      id |-> Len(details) + 1])
    /\ UNCHANGED <<now, hostState, catalogs>>

\* the timer of line 525 expires: the appdetails request is sent
RealGameDelayFire(d) ==
    /\ TimerDue("realGame", d)
    /\ timers' = Tail(timers)
    /\ details' = [details EXCEPT ![d].pc = "store"]
    /\ UNCHANGED <<now, hostState, catalogs>>

\* the appdetails request ends: getRealGame returns and the handler goes
\* on up to its next await or its end
StoreAnswer(d, ans) ==
    /\ d \in 1..Len(details)
    /\ details[d].pc = "store"
    /\ details' = [details EXCEPT ![d] =
                      IF @.handler = "part_000"
                      THEN gameDetailsPart000(@, getRealGame(ans))
                      ELSE gameDetailsMain(@, getRealGame(ans))]
    /\ UNCHANGED <<now, timers, hostState, catalogs>>

\* getSteamAppInfo returns to the handler of main.ts
InfoAnswer(d, resp) ==
    /\ d \in 1..Len(details)
    /\ details[d].pc = "info"
    /\ details' = [details EXCEPT ![d] = gameDetailsInfo(@, resp)]
    /\ UNCHANGED <<now, timers, hostState, catalogs>>

\* the event loop sleeps until the next timer expires
DetailsWait ==
    /\ timers # <<>>
    /\ Advance(REAL_GAME_DELAY_MS, Head(timers).deadline)

InitIdle ==
    /\ Init
    /\ cache = EmptyMap

NextDetails ==
    \/ \E h \in DetailsHandlers : DetailsEvent(h)
    \/ \E d \in 1..MaxDetails : RealGameDelayFire(d)
    \/ \E d \in 1..MaxDetails, ans \in StoreAnswers : StoreAnswer(d, ans)
    \/ \E d \in 1..MaxDetails, resp \in DetailsResponses : InfoAnswer(d, resp)
    \/ DetailsWait

SpecDetails == InitIdle /\ [][NextDetails]_vars

\* ------------------------------------------------------------------------
\* The catalog handler: main.ts lines 730-783
\* ------------------------------------------------------------------------
MaxCatalogs == 2

\* lines 741, 752, 762: the keys of the three sections
Sections == {"top-sellers", "roguelike", "jrpg"}

\* what a search request to the store can end with: a body with items, a
\* failed request, a body without items
SearchAnswers == {"items", "error", "no items"}

\* lines 735-744: the section's promise.  A body with items is mapped by
\* extractApps and the promise is fulfilled; a failed request is passed by
\* .catch to reject; on a body without items extractApps throws inside the
\* .then callback (items.map of undefined), which rejects the chain and
\* reaches the same .catch
sectionPromise(ans) == IF ans = "items" THEN "fulfilled" ELSE "rejected"

\* (a variant that gives up the whole catalog when a section fails, as
\* Promise.all would)
catalogResultsAll(promises) ==
    IF \A sec \in Sections : promises[sec] = "fulfilled"
    THEN Sections ELSE {}

\* lines 768-780: the keys of the catalog built from the settled promises
catalogResults(promises) ==
    {sec \in Sections : promises[sec] = "fulfilled"}

\* line 733: Promise.allSettled has all its results
allSettled(promises) == \A sec \in Sections : promises[sec] # "pending"

\* an invocation of the handler: its three promises, as history what each
\* request ended with, how often event.resolve and event.fail were called,
\* and the keys of the catalog passed to event.resolve
NewCatalog ==
    [pc |-> "waiting",
     promises |-> [sec \in Sections |-> "pending"],
     answers |-> [sec \in Sections |-> "none"],
     resolves |-> 0, fails |-> 0, result |-> {}]

\* lines 768-782, once the await of line 733 returns
catalogFinish(inv) ==
    [inv EXCEPT !.pc = "done",
                !.resolves = @ + 1,
                !.result = catalogResults(inv.promises)]

\* a catalog event arrives: lines 730-766, the three requests are sent
CatalogEvent ==
    /\ Len(catalogs) < MaxCatalogs
    /\ catalogs' = Append(catalogs, NewCatalog)
    /\ UNCHANGED <<now, timers, hostState, details>>

\* a search request ends: its promise is settled, and when it was the last
\* of the three the handler goes on to its end
SearchAnswer(c, sec, ans) ==
    /\ c \in 1..Len(catalogs)
    /\ catalogs[c].promises[sec] = "pending"
    /\ LET inv == [catalogs[c] EXCEPT !.promises[sec] = sectionPromise(ans),
                                      !.answers[sec] = ans]
       IN catalogs' = [catalogs EXCEPT ![c] =
                          IF allSettled(inv.promises)
                          THEN catalogFinish(inv) ELSE inv]
    /\ UNCHANGED <<now, timers, hostState, details>>

NextCatalog ==
    \/ CatalogEvent
    \/ \E c \in 1..MaxCatalogs, sec \in Sections, ans \in SearchAnswers :
           SearchAnswer(c, sec, ans)

SpecCatalog == InitIdle /\ [][NextCatalog]_vars

\* ------------------------------------------------------------------------
\* Properties
\* ------------------------------------------------------------------------
Settled == {settled[i] : i \in 1..Len(settled)}

\* C1: requests passed to queueUpdateCheck for one appID are settled
\* (resolved or rejected) in the order in which they were pushed: a request
\* that is settled is the oldest one of its appID not settled before.
C1_SettledInPushOrder ==
    \A x \in Settled : x.request = x.oldest

\* C1 at work: the first request for 42 was rejected, the second has just
\* been settled after a metadata call, and a third, pushed meanwhile, waits.
C1_Witness ==
    /\ Len(events) = 3
    /\ events[1].pc = "rejected"
    /\ events[3].pc = "queued"
    /\ \E x \in Settled : x.request = 2 /\ x.via = "fetch"

\* C2: of two host 'check-for-updates' events for one appID, the one the
\* host sent first has its event.resolve delivered first: when an event is
\* resolved, no event sent after it for the same appID has been resolved.
C2_ResolvedInHostOrder ==
    \A x \in Settled : x.pc = "resolved" => x.overtakenBy = {}

\* the metadata calls for an appID that have been issued and not answered:
\* the processor's and the legacy resolver's
InFlight(a) ==
    (IF proc[a].pc = "fetching" THEN 1 ELSE 0)
    + Cardinality({e \in 1..Len(events) :
                      events[e].appID = a /\ events[e].pc = "resolving"})

\* C3: at any instant at most one getSteamAppInfo call for an appID is in
\* flight, counting the processor's calls and the legacy resolver's.
C3_OneCallInFlight ==
    \A a \in AppIDs : InFlight(a) <= 1

\* C4: two consecutive metadata calls of the queue processor for one appID
\* start at least 1500 ms apart, also across processor runs and when the
\* earlier call failed.
C4_CallsSpaced ==
    \A a \in AppIDs : fetchLog[a].spaced

\* C4 at work: the first request was rejected and its processor run ended;
\* the rate limiter held back the call for the next request, which has now
\* been issued, exactly one cooldown after the first.
C4_Witness ==
    /\ fetchLog[42].count = 2
    /\ fetchLog[42].gap = 1500
    /\ proc[42].pc = "fetching"
    /\ proc[42].limited
    /\ events[1].pc = "rejected"

C6_CacheHitFastPath ==
    \A x \in Settled :
        x.pc = "resolved" /\ x.via = "cache" => x.event.calls = 0

\* C7 as claimed: available is (version # v) for the currentVersion v the
\* host supplied, placeholders included.
C7_AvailableAgainstSupplied ==
    \A x \in Settled :
        x.pc = "resolved" => (x.available <=> x.version # x.event.supplied)

\* C7 as amended: available is (version # v) for a currentVersion v that is
\* not a placeholder; for '1.0' and '1.0.0' it is (version # w), w being
\* what the legacy resolver returned for the event.
C7_AvailableAgainstSubstituted ==
    \A x \in Settled :
        x.pc = "resolved" =>
            IF IsPlaceholder(x.event.supplied)
            THEN x.available <=> x.version # x.event.currentVersion
            ELSE x.available <=> x.version # x.event.supplied

\* C7 at work: the cache was empty, the host sent '1.0.0', the resolver and
\* the processor both got build id 57: resolved {'57', available: false}.
C7_Witness ==
    \E x \in Settled :
        /\ x.pc = "resolved"
        /\ x.event.supplied = "1.0.0"
        /\ x.event.calls = 2
        /\ x.via = "fetch"
        /\ x.version = "57"
        /\ ~x.available

C9_RejectedNotFound ==
    [][\A i \in 1..Len(settled') :
          (/\ settled'[i].pc = "rejected"
           /\ settled'[i].cause \in {"fetch failed", "no record"}) =>
              /\ settled'[i].error = "Steam app info not found"
              /\ cache' = cache]_vars

C11_EventuallySettled ==
    \A r \in 1..MaxRequests :
        (Len(events) >= r /\ events[r].pc = "queued")
            ~> (Len(events) >= r /\ events[r].pc \in {"resolved", "rejected"})

\* C11 at work: three requests were pushed when the bounded part of the run
\* was over; the first two were rejected, and the third, pushed while the
\* processor was busy with them, has now been resolved after a call of its
\* own.
C11_Witness ==
    /\ Len(events) = 3
    /\ events[1].pc = "rejected"
    /\ events[2].pc = "rejected"
    /\ now > StartTime + MaxTicks * TickMs
    /\ \E x \in Settled : x.request = 3 /\ x.pc = "resolved" /\ x.via = "fetch"

\* the deferred function of the handler has ended for the event, by its
\* last statement or by an exception
Ended(ev) == ev.pc \in {"resolved", "rejected", "threw", "storeFailed"}

\* the terminal reports (event.resolve, event.fail) the handler has made
\* for the event: line 803 is the only one it contains
Reports(ev) == IF ev.pc = "resolved" THEN 1 ELSE 0

\* C12: every host event whose handling has ended has had exactly one
\* terminal report (event.resolve or event.fail), also when the queued
\* request was rejected and when the legacy resolver threw.
C12_OneTerminalReport ==
    \A e \in 1..Len(events) : Ended(events[e]) => Reports(events[e]) = 1

\* C13: a failure to read or write a persisted store is never fatal to an
\* update check: no event's handling ends by the exception of a store
\* operation.
C13_StoreFaultNotFatal ==
    \A e \in 1..Len(events) : events[e].pc # "storeFailed"

\* C14: when a check-for-updates event with a placeholder version arrives
\* and the resolver has a resolution for its appID, the resolver returns
\* the stored version, makes no metadata call and leaves the mapping alone.
C14_StoredResolutionReturned ==
    [][(/\ Len(events') = Len(events) + 1
        /\ events'[Len(events')].supplied \in {"1.0", "1.0.0"}
        /\ events'[Len(events')].appID \in DOMAIN resolved10FileVersions) =>
           /\ events'[Len(events')].currentVersion =
                  resolved10FileVersions[events'[Len(events')].appID]
           /\ events'[Len(events')].calls = 0
           /\ events'[Len(events')].pc = "stagger"
           /\ resolved10FileVersions' = resolved10FileVersions]_vars

\* C14 at work: the resolution stored for 42 is '57'; the metadata service
\* has answered '58' since (the cache holds it); a second event with
\* '1.0.0' got '57' from the resolver without a metadata call.
C14_Witness ==
    /\ Len(events) = 2
    /\ events[2].pc = "stagger"
    /\ events[2].supplied = "1.0.0"
    /\ events[2].currentVersion = "57"
    /\ events[2].calls = 0
    /\ 42 \in DOMAIN resolved10FileVersions
    /\ resolved10FileVersions[42] = "57"
    /\ 42 \in DOMAIN cache
    /\ cache[42].version = "58"

\* C15: the legacy resolution of an appID is written at most once: once
\* the mapping has a value for an appID, no step changes or removes it.
C15_ResolutionWrittenOnce ==
    [][\A a \in DOMAIN resolved10FileVersions :
          /\ a \in DOMAIN resolved10FileVersions'
          /\ resolved10FileVersions'[a] = resolved10FileVersions[a]]_vars

\* C16: when the resolver's metadata call has failed (the resolver has
\* returned and there is no mapping for the appID), the handler goes on
\* with the placeholder the host supplied, unchanged.
C16_FailedFetchKeepsPlaceholder ==
    \A e \in 1..Len(events) :
        (/\ events[e].pc = "stagger"
         /\ events[e].supplied \in {"1.0", "1.0.0"}
         /\ events[e].appID \notin DOMAIN resolved10FileVersions) =>
            events[e].currentVersion = events[e].supplied

\* what resolve10FileVersion can have returned for an appID, given the
\* mapping it leaves behind: the mapped version or, after a failed call,
\* '1.0'
ResolverResults(stored, appID) ==
    {"1.0"} \cup (IF appID \in DOMAIN stored THEN {stored[appID]} ELSE {})

\* C18: an event with currentVersion '1.0' or '1.0.0' enters the handler's
\* delay with the resolver's result in place of it; an event with any other
\* currentVersion never waits for the resolver, has caused no metadata call
\* when its delay starts and keeps its value; the value an event has when
\* its delay starts is the value that is queued.
C18_PlaceholderSubstituted ==
    [][\A e \in 1..Len(events') :
          LET ev == events'[e]
              entersDelay == /\ ev.pc = "stagger"
                             /\ (e > Len(events) \/ events[e].pc # "stagger")
          IN /\ (ev.pc \in {"resolving", "stagger", "queued"}
                    /\ ev.supplied \notin {"1.0", "1.0.0"}) =>
                       /\ ev.pc # "resolving"
                       /\ ev.currentVersion = ev.supplied
                       /\ ev.pc = "stagger" => ev.calls = 0
             /\ (entersDelay /\ ev.supplied \in {"1.0", "1.0.0"}) =>
                    ev.currentVersion \in
                        ResolverResults(resolved10FileVersions', ev.appID)
             /\ (ev.pc = "queued" /\ e <= Len(events)
                    /\ events[e].pc = "stagger") =>
                       ev.currentVersion = events[e].currentVersion]_vars

\* C18 at work: the first event came with '1.0.0' and is queued with the
\* resolver's '58'; the second came with '57' and waits with '57', no
\* metadata call made for it.
C18_Witness ==
    /\ Len(events) = 2
    /\ events[1].pc = "queued"
    /\ events[1].supplied = "1.0.0"
    /\ events[1].currentVersion = "58"
    /\ events[2].pc = "stagger"
    /\ events[2].supplied = "57"
    /\ events[2].currentVersion = "57"
    /\ events[2].calls = 0

\* C19: an appID has at most one draining loop: its flag is set exactly
\* while a processUpdateQueue call is active for it; a request pushed while
\* the flag is set is appended and the call made for it pops nothing and
\* leaves the active loop where it is; the flag is cleared only by the loop
\* that found the queue empty, with no pushed request left unsettled.
C19_OneProcessor ==
    [][\A a \in AppIDs :
          /\ a \in queueProcessors' <=> proc'[a].pc # "idle"
          /\ (/\ a \in queueProcessors
              /\ Len(events') = Len(events) + 1
              /\ events'[Len(events')].appID = a) =>
                 /\ a \in queueProcessors'
                 /\ proc'[a] = proc[a]
                 /\ updateQueues'[a] = Append(updateQueues[a], Len(events'))
                 /\ settled' = <<>>
          /\ (a \in queueProcessors /\ a \notin queueProcessors') =>
                 /\ a \notin DOMAIN updateQueues'
                 /\ pending'[a] = <<>>]_vars

\* C19 at work: the loop for 42 waits for the metadata call of the first
\* request; two more requests were pushed meanwhile and wait in the queue.
C19_Witness ==
    /\ 42 \in queueProcessors
    /\ proc[42].pc = "fetching"
    /\ proc[42].request = 1
    /\ 42 \in DOMAIN updateQueues
    /\ updateQueues[42] = <<2, 3>>

\* C20: after every step an appID has a queue exactly when its flag is
\* set; a pushed request that is not settled has its appID's flag set (so
\* it is served by the run that was active or started when it was pushed);
\* a push for an appID without a flag starts a processor that takes the
\* request in the same step.
C20_QueueIffProcessor ==
    [][/\ DOMAIN updateQueues' = queueProcessors'
       /\ \A a \in AppIDs :
             /\ pending'[a] # <<>> =>
                    /\ a \in queueProcessors'
                    /\ proc'[a].pc # "idle"
             /\ (/\ a \notin queueProcessors
                 /\ Len(events') = Len(events) + 1
                 /\ events'[Len(events')].appID = a) =>
                    \/ /\ a \in queueProcessors'
                       /\ proc'[a].request = Len(events')
                       /\ updateQueues'[a] = <<>>
                    \/ /\ a \notin queueProcessors'
                       /\ Len(settled') = 1
                       /\ settled'[1].request = Len(events')]_vars

\* C20 at work: the run that served the first request has ended and removed
\* queue and flag; the second request, pushed within the cooldown, started
\* a new processor, which holds it back in the rate limiter.
C20_Witness ==
    /\ Len(events) = 2
    /\ Ended(events[1])
    /\ 42 \in queueProcessors
    /\ 42 \in DOMAIN updateQueues
    /\ updateQueues[42] = <<>>
    /\ proc[42].pc = "cooldown"
    /\ proc[42].request = 2

\* C17: requests for an appID are submitted back-to-back (SpecBurst).  When
\* the third is settled and each of the three was a cache miss when the
\* processor took it, the processor has made exactly three metadata calls
\* for the appID, one per request, each at least 1500 ms after the one
\* before, and the three requests were settled in the order of their
\* submission.
C17_ThreeMissesThreeCalls ==
    \A x \in Settled :
        (x.request = 3 /\ fetchLog[x.event.appID].misses = 3) =>
            /\ fetchLog[x.event.appID].count = 3
            /\ fetchLog[x.event.appID].spaced
            /\ x.event.calls = 1
            /\ x.oldest = 3
            /\ Ended(events[1])
            /\ Ended(events[2])

\* C17 at work: three requests for 42 were submitted back-to-back at the
\* start; the first two were rejected after a call each, and the third is
\* now resolved after the third call, two cooldowns after the start.
C17_Witness ==
    /\ now = StartTime + 2 * UPDATE_COOLDOWN_MS
    /\ fetchLog[42].misses = 3
    /\ fetchLog[42].count = 3
    /\ events[1].pc = "rejected"
    /\ events[2].pc = "rejected"
    /\ \E x \in Settled : x.request = 3 /\ x.via = "fetch" /\ x.pc = "resolved"

\* C21: every request is settled at most once, by one of resolve and
\* reject, and by the processor that took it: a step settles only requests
\* that were queued and unsettled, each once, none of them is left in a
\* queue, and a settled request is never touched again.
C21_SettledOnce ==
    [][/\ \A i \in 1..Len(settled') :
             LET x == settled'[i] IN
             /\ x.event.pc = "queued"
             /\ x.pc \in {"resolved", "rejected"}
             /\ events'[x.request].pc = x.pc
             /\ \A j \in 1..Len(settled') :
                    j # i => settled'[j].request # x.request
             /\ x.request <= Len(events) =>
                    /\ events[x.request].pc = "queued"
                    /\ x.event.appID \in queueProcessors
             /\ x.event.appID \in DOMAIN updateQueues' =>
                    \A k \in 1..Len(updateQueues'[x.event.appID]) :
                        updateQueues'[x.event.appID][k] # x.request
       /\ \A e \in 1..Len(events) :
             events[e].pc \in {"resolved", "rejected"} =>
                 /\ events'[e] = events[e]
                 /\ \A i \in 1..Len(settled') : settled'[i].request # e]_vars

\* C21 at work: the first request was resolved from the cache; the second,
\* taken after the entry had expired, has just been rejected by the
\* processor that made the call for it.
C21_Witness ==
    /\ Len(events) >= 2
    /\ events[1].pc = "resolved"
    /\ events[2].pc = "rejected"
    /\ \E x \in Settled :
          /\ x.request = 2
          /\ x.pc = "rejected"
          /\ x.event.pc = "queued"
          /\ x.record \in SteamResponses

\* C27: the version derived from a fetched record is the build id of its
\* public branch whenever the record has one ('1.0' only for a record
\* without one): a request that got a record with a public build id is
\* resolved with that build id.
C27_BuildIdPreferred ==
    \A x \in Settled :
        (x.record.ok /\ x.record.hasData /\ x.record.hasPublic) =>
            /\ x.pc = "resolved"
            /\ x.version = x.record.buildid

\* C22: a step in which the processor resolves a request from a valid
\* cache entry resolves it with the entry's version and with available =
\* (entry's version # the request's currentVersion), leaves lastApiCallTime
\* and the cache file as they were, makes no metadata call and sets no
\* timer; the loop goes on at once, so the step ends with the queue drained.
C22_CacheHitIsFree ==
    [][\A i \in 1..Len(settled') :
          LET x == settled'[i]
              a == x.event.appID
          IN (x.pc = "resolved" /\ x.via = "cache") =>
                 /\ a \in DOMAIN cache
                 /\ x.version = cache[a].version
                 /\ x.available <=> cache[a].version # x.event.currentVersion
                 /\ lastApiCallTime' = lastApiCallTime
                 /\ cache' = cache
                 /\ fetchLog' = fetchLog
                 /\ timers' = timers \/ (timers # <<>> /\ timers' = Tail(timers))
                 /\ pending'[a] = <<>>
                 /\ proc'[a] = IdleProc]_vars

\* C22 at work: after the inter-item wait the processor served the two
\* requests left in the queue from the entry in one step: version '57' for
\* both, no update for the one that has '57', an update for the other.
C22_Witness ==
    /\ Len(settled) = 2
    /\ settled[1].via = "cache"
    /\ settled[2].via = "cache"
    /\ settled[1].version = "57"
    /\ settled[1].available # settled[2].available
    /\ lastApiCallTime[42] = now - UPDATE_COOLDOWN_MS

\* C23: the step that ends a request's cache-miss handling (the metadata
\* call has returned, the request is resolved or rejected) starts a wait of
\* 1500 ms if the queue is non-empty at that moment, and nothing is taken
\* from the queue before the wait is over; if the queue is empty the
\* processor ends in that step and no timer is set.
C23_CooldownIffQueued ==
    /\ [][\A a \in AppIDs :
          proc[a].pc = "fetching" /\ proc'[a].pc # "fetching" =>
              IF updateQueues[a] # <<>>
              THEN /\ proc'[a].pc = "inter"
                   /\ a \in DOMAIN updateQueues'
                   /\ updateQueues'[a] = updateQueues[a]
                   /\ \E k \in 1..Len(timers') :
                          timers'[k] = [deadline |-> now + 1500,
                                        kind |-> "inter", id |-> a]
                   /\ Len(timers') = Len(timers) + 1
              ELSE /\ proc'[a] = IdleProc
                   /\ a \notin queueProcessors'
                   /\ timers' = timers]_vars
    /\ [][\A a \in AppIDs :
             proc[a].pc = "inter" =>
                 IF proc'[a].pc = "inter"
                 THEN Head(updateQueues'[a]) = Head(updateQueues[a])
                 ELSE /\ timers # <<>>
                      /\ Head(timers) = [deadline |-> now, kind |-> "inter",
                                         id |-> a]
                      /\ now >= lastApiCallTime[a] + 1500]_vars

\* C23 at work: the call for the first request succeeded, the request is
\* resolved, a second request is queued, and the processor has started its
\* wait of one cooldown.
C23_Witness ==
    /\ \E x \in Settled : x.request = 1 /\ x.pc = "resolved" /\ x.via = "fetch"
    /\ proc[42].pc = "inter"
    /\ updateQueues[42] = <<2>>
    /\ timers = <<[deadline |-> now + 1500, kind |-> "inter", id |-> 42]>>

C28_DelayGrowsWithCounter ==
    /\ [][/\ req' >= req
          /\ req' = req + (Len(events') - Len(events))
          /\ Len(events') \in {Len(events), Len(events) + 1}
          /\ \A e \in 1..Len(events') :
                 /\ (events'[e].pc = "stagger"
                        /\ (e > Len(events) \/ events[e].pc # "stagger")) =>
                        /\ events'[e].waited = 1500 * req'
                        /\ events'[e].waited >= e * 1500
                        /\ \E k \in 1..Len(timers') :
                               timers'[k] = [deadline |-> now + 1500 * req',
                                             kind |-> "stagger", id |-> e]
                 /\ (e <= Len(events) /\ events[e].pc = "stagger"
                        /\ events'[e].pc # "stagger") =>
                        /\ timers # <<>>
                        /\ Head(timers) = [deadline |-> now,
                                           kind |-> "stagger", id |-> e]
                        /\ events[e].waited >= e * 1500
                 /\ (e <= Len(events) /\ events[e].pc \in {"start", "resolving"}) =>
                        events'[e].pc \in {"resolving", "stagger", "threw",
                                           "storeFailed"}]_vars
    /\ [](req = Len(events))

\* C28 at work: the first event's placeholder was being resolved when the
\* second event arrived, so the first event's delay is 2 x 1500 ms.
C28_Witness ==
    /\ Len(events) = 2
    /\ req = 2
    /\ events[1].calls = 1
    /\ events[1].waited = 3000
    /\ events[2].waited = 3000

\* C29: a step of the legacy-version resolver (a placeholder event arrives,
\* or the resolver's metadata call returns) leaves the update queues, the
\* processor flags and positions, lastApiCallTime and the TTL cache as they
\* were, queues no request, makes no call through the rate limiter and sets
\* no cooldown timer; the resolver's own call starts in the step in which
\* the event arrives, whatever lastApiCallTime holds.
C29_ResolverBypassesQueue ==
    [][\A e \in 1..Len(events') :
          (/\ IsPlaceholder(events'[e].supplied)
           /\ \/ e > Len(events)
              \/ events[e].pc = "resolving" /\ events'[e].pc # "resolving") =>
              /\ updateQueues' = updateQueues
              /\ queueProcessors' = queueProcessors
              /\ proc' = proc
              /\ lastApiCallTime' = lastApiCallTime
              /\ cache' = cache
              /\ pending' = pending
              /\ fetchLog' = fetchLog
              /\ settled' = <<>>
              /\ \A k \in 1..Len(timers') :
                     timers'[k].kind \in {"cooldown", "inter"} =>
                         \E j \in 1..Len(timers) : timers[j] = timers'[k]
              /\ e > Len(events) =>
                     IF HasResolution(resolved10FileVersions, events'[e].appID)
                     THEN /\ events'[e].calls = 0
                          /\ events'[e].currentVersion =
                                 resolved10FileVersions[events'[e].appID]
                     ELSE /\ events'[e].calls = 1
                          /\ events'[e].pc = "resolving"]_vars

\* C29 at work: the processor of 42 is in a metadata call it started through
\* the rate limiter at this very moment, and the resolver has nevertheless
\* started its own call for a placeholder event for 42.
C29_Witness ==
    /\ Len(events) = 2
    /\ events[2].pc = "resolving"
    /\ events[2].calls = 1
    /\ proc[42].pc = "fetching"
    /\ 42 \in DOMAIN lastApiCallTime
    /\ lastApiCallTime[42] = now

\* C30: when the first request of a burst for one appID found no valid
\* cache entry and its metadata call succeeded, that call is the only one
\* made for the burst: no later request of the burst is a miss or is
\* rejected, and each is resolved with the version the first one cached,
\* with available computed against its own currentVersion.
C30_BurstOneCall ==
    (/\ Len(events) >= 1
     /\ events[1].pc = "resolved"
     /\ fetchLog[42].misses >= 1) =>
        /\ fetchLog[42].count = 1
        /\ fetchLog[42].misses = 1
        /\ 42 \in DOMAIN cache
        /\ cache[42].timestamp = fetchLog[42].last
        /\ \A e \in 2..Len(events) : events[e].pc \in {"queued", "resolved"}
        /\ \A x \in Settled :
               x.request > 1 =>
                   /\ x.pc = "resolved"
                   /\ x.via = "cache"
                   /\ x.version = cache[42].version
                   /\ x.available <=> cache[42].version # x.event.currentVersion

\* C30 at work: three requests were submitted back-to-back; the first
\* missed and its call succeeded, and the other two have now been resolved
\* from its entry, one with an update and one without, after one call.
C30_Witness ==
    /\ Len(events) = 3
    /\ events[1].pc = "resolved"
    /\ fetchLog[42].misses = 1
    /\ fetchLog[42].count = 1
    /\ Len(settled) = 2
    /\ settled[1].request = 2 /\ settled[2].request = 3
    /\ settled[1].via = "cache" /\ settled[2].via = "cache"
    /\ settled[1].available /\ ~settled[2].available

\* the entry of an appID in the cache file, as a set: empty when there is
\* none
Entry(c, a) == IF a \in DOMAIN c THEN {c[a]} ELSE {}

Isolated(s, b) ==
    [s EXCEPT
        !.updateQueues = [x \in (DOMAIN @) \cap {b} |-> @[x]],
        !.queueProcessors = @ \cap {b},
        !.proc = [x \in AppIDs |-> IF x = b THEN @[x] ELSE IdleProc],
        !.cache = [x \in (DOMAIN @) \cap {b} |-> @[x]],
        !.lastApiCallTime = [x \in AppIDs |-> IF x = b THEN @[x] ELSE 0],
        !.timers = SelectSeq(@, LAMBDA t : t.id = b),
        !.pending = [x \in AppIDs |-> IF x = b THEN @[x] ELSE <<>>],
        !.fetchLog = [x \in AppIDs |-> IF x = b THEN @[x] ELSE NoCalls]]

\* what belongs to appID b in a state
Own(s, b) ==
    [queue |-> Entry(s.updateQueues, b),
     flag |-> b \in s.queueProcessors,
     proc |-> s.proc[b],
     entry |-> Entry(s.cache, b),
     last |-> s.lastApiCallTime[b],
     pending |-> s.pending[b],
     log |-> s.fetchLog[b],
     timers |-> SelectSeq(s.timers, LAMBDA t : t.id = b),
     requests |-> [e \in {f \in 1..Len(s.events) : s.events[f].appID = b}
                     |-> s.events[e]]]

\* the outcome of a step for b: what b owns after it and what it settled
Outcome(s, b) == [own |-> Own(s, b), settled |-> s.settled]

\* a step for b started in state s has the outcome it has when nothing of
\* another appID is there, and leaves what another appID owns as it is
SameAlone(s, t, alone, b) ==
    /\ Outcome(t, b) = Outcome(alone, b)
    /\ \A a \in AppIDs \ {b} : Own(t, a) = Own(s, a)

\* the steps of the queue code for b, from the present state and from the
\* present state with b alone
StepsIndependent(b) ==
    /\ Len(events) < MaxRequests =>
           \A v \in QueueVersions :
               LET r == Len(events) + 1
                   push(s) == queueUpdateCheck(
                       [s EXCEPT !.events = Append(@, NewEvent(b, v))], r)
               IN SameAlone(Cur, push(Cur), push(Isolated(Cur, b)), b)
    /\ TimerDue("cooldown", b) =>
           LET fire(s) == startApiCall([s EXCEPT !.timers = Tail(@)], b)
           IN SameAlone(Cur, fire(Cur), fire(Isolated(Cur, b)), b)
    /\ proc[b].pc = "fetching" =>
           \A resp \in SteamResponses :
               LET done(s) == afterApiCall(finishUpdateCheck(s, b, resp), b)
               IN SameAlone(Cur, done(Cur), done(Isolated(Cur, b)), b)
    /\ TimerDue("inter", b) =>
           LET fire(s) == processUpdateQueueLoop(
                              [s EXCEPT !.timers = Tail(@)], b)
           IN SameAlone(Cur, fire(Cur), fire(Isolated(Cur, b)), b)

\* C26: in every state, each step the queue code can take for an appID has
\* the outcome it would have with the other appID's queue, flag, processor,
\* cache entry, lastApiCallTime and timers absent, and leaves those as they
\* are; and a request queued for 99 is settled in the end although a
\* metadata call for 42 may never return.
C26_ProcessorsIndependent ==
    /\ [](\A b \in AppIDs : StepsIndependent(b))
    /\ (pending[99] # <<>>) ~> (pending[99] = <<>>)

\* C26 at work: the processor of 42 is suspended in the metadata call for
\* the first request, and the second request, for 99, queued after it, has
\* been served by its own call and is resolved.
C26_Witness ==
    /\ Len(events) = 2
    /\ events[1].appID = 42
    /\ proc[42] = [pc |-> "fetching", request |-> 1, found |-> proc[42].found,
                   limited |-> FALSE]
    /\ 42 \in queueProcessors
    /\ \E x \in Settled :
          x.request = 2 /\ x.event.appID = 99 /\ x.pc = "resolved"
            /\ x.via = "fetch"
    /\ 99 \notin queueProcessors

\* C31: a game-details event whose handling has ended has had exactly one
\* of event.resolve and event.fail called, once, and an event whose handling
\* has not ended has had at most one of them called.
C31_ExactlyOneReport ==
    \A d \in 1..Len(details) :
        /\ details[d].resolves + details[d].fails <= 1
        /\ details[d].pc \in {"done", "threw"} =>
               details[d].resolves + details[d].fails = 1

\* C32: the catalog handler never calls event.fail and calls
\* event.resolve at most once; it has called it exactly when all three
\* store requests have ended, and then with a catalog whose sections are
\* exactly those whose request ended with a usable answer: a failed request
\* takes its own section out and no other.
C32_CatalogResolvedOnce ==
    \A c \in 1..Len(catalogs) :
        LET inv == catalogs[c] IN
        /\ inv.fails = 0
        /\ inv.resolves = IF allSettled(inv.promises) THEN 1 ELSE 0
        /\ inv.resolves = 1 =>
               /\ inv.pc = "done"
               /\ inv.result = {sec \in Sections : inv.answers[sec] = "items"}
               /\ \A sec \in Sections :
                      sec \in inv.result <=>
                          inv.answers[sec] \notin {"error", "no items"}

\* C32 at work: the roguelike request failed and the other two succeeded;
\* the handler has resolved once with the top-sellers and jrpg sections.
C32_Witness ==
    /\ Len(catalogs) >= 1
    /\ catalogs[1].answers["roguelike"] = "error"
    /\ catalogs[1].answers["top-sellers"] = "items"
    /\ catalogs[1].answers["jrpg"] = "items"
    /\ catalogs[1].resolves = 1
    /\ catalogs[1].fails = 0
    /\ catalogs[1].result = {"top-sellers", "jrpg"}

====
